---- MODULE Spec2Model ----
(***************************************************************************)
(* libechoexec: the Echo event dispatcher.                                 *)
(*                                                                         *)
(* Spawner::spawn serializes a Payload's events, captures copies of what   *)
(* the exchange needs and spawns run_impl on the tokio runtime; run_impl   *)
(* POSTs the JSON to the collector and reports through the optional slog   *)
(* logger.  The model follows src/src/echo.rs and src/src/error.rs.        *)
(***************************************************************************)
EXTENDS Integers, Sequences, FiniteSets, TLC

VARIABLES
    spawner,     \* the Spawner: its runtime and its hyper client
    echo_event,  \* the Event the caller holds and edits (tests: echo_event)
    payload,     \* the Payload the next caller holds and passes to spawn by reference
    calls,       \* one record per call of Spawner::spawn, in call order
    tasks        \* one record per future spawned on the runtime, in spawn order

vars == <<spawner, echo_event, payload, calls, tasks>>

(***************************************************************************)
(* Bounds of the model.                                                    *)
(***************************************************************************)
\* calls of Spawner::spawn in one behaviour
MaxSpawns == 2

(***************************************************************************)
(* Option<T>: None is the empty tuple, Some(v) is <<v>>.                   *)
(***************************************************************************)
None == <<>>

Some(v) == <<v>>

IsSome(o) == o # <<>>

(***************************************************************************)
(* Decimal and hexadecimal text, as the formatters of serde_json and uuid  *)
(* write them.                                                             *)
(***************************************************************************)
Digits == <<"0", "1", "2", "3", "4", "5", "6", "7", "8", "9",
            "a", "b", "c", "d", "e", "f">>

RECURSIVE NatToString(_)
NatToString(n) ==
    IF n < 10 THEN Digits[n + 1]
    ELSE NatToString(n \div 10) \o Digits[(n % 10) + 1]

IntToString(n) == IF n < 0 THEN "-" \o NatToString(0 - n) ELSE NatToString(n)

\* A 64-bit value that does not fit the 32-bit integers of the checker is
\* kept as its decimal halves: Wide(hi, lo) is hi * 10^9 + lo, 0 <= lo < 10^9,
\* hi >= 0.  Its text is the digits of hi, when hi is not 0, then the nine
\* digits of lo.
Wide(hi, lo) == <<hi, lo>>

RECURSIVE PadZeros(_, _)
PadZeros(text, width) ==
    IF Len(text) >= width THEN text ELSE PadZeros("0" \o text, width)

WideToString(w) ==
    IF w[1] = 0 THEN NatToString(w[2])
    ELSE NatToString(w[1]) \o PadZeros(NatToString(w[2]), 9)

ByteToHex(b) == Digits[(b \div 16) + 1] \o Digits[(b % 16) + 1]

RECURSIVE HexOf(_)
HexOf(bytes) ==
    IF bytes = <<>> THEN ""
    ELSE ByteToHex(Head(bytes)) \o HexOf(Tail(bytes))

\* Uuid's Serialize writes the hyphenated lower-case form of the 16 bytes.
UuidToString(u) ==
    HexOf(SubSeq(u, 1, 4)) \o "-" \o HexOf(SubSeq(u, 5, 6)) \o "-"
        \o HexOf(SubSeq(u, 7, 8)) \o "-" \o HexOf(SubSeq(u, 9, 10)) \o "-"
        \o HexOf(SubSeq(u, 11, 16))

(***************************************************************************)
(* CollectorUrl                                                            *)
(***************************************************************************)
CollectorUrl == {"Stage", "Prod"}

CollectorUrlDefault == "Stage"

as_str(url) ==
    IF url = "Stage" THEN "https://echocollector-stage.kroger.com/echo/messages"
    ELSE "https://echocollector.kroger.com/echo/messages"

(***************************************************************************)
(* EventType and Response, with their Serialize implementations.           *)
(***************************************************************************)
EventType == {"Error", "Info", "Performance", "Tracking", "System"}

EventTypeSer(t) ==
    CASE t = "Error" -> "ERROR"
      [] t = "Info" -> "INFO"
      [] t = "Performance" -> "PERFORMANCE"
      [] t = "Tracking" -> "TRACKING"
      [] t = "System" -> "SYSTEM"

ResponseSer(r) == IF r = "Success" THEN "success" ELSE "failure"

(***************************************************************************)
(* Event: Event::default() and the setters the callers use.                *)
(***************************************************************************)
EventDefault ==
    [routing_key |-> "", event_type |-> "Info", message |-> "",
     correlation_id |-> None, timestamp |-> None, message_detail |-> None,
     host |-> None, application_version |-> None, data_center |-> None,
     client_host_name |-> None, destination_host_name |-> None,
     destination_path |-> None, start_timestamp |-> None,
     finish_timestamp |-> None, duration |-> None, duration_in_ms |-> None,
     response_code |-> None, response |-> None]

set_routing_key(e, k) == [e EXCEPT !.routing_key = k]

set_event_type(e, t) == [e EXCEPT !.event_type = t]

set_message(e, m) == [e EXCEPT !.message = m]

set_correlation_id(e, o) == [e EXCEPT !.correlation_id = o]

set_timestamp(e, o) == [e EXCEPT !.timestamp = o]

set_host(e, o) == [e EXCEPT !.host = o]

set_message_detail(e, o) == [e EXCEPT !.message_detail = o]

set_application_version(e, o) == [e EXCEPT !.application_version = o]

set_data_center(e, o) == [e EXCEPT !.data_center = o]

set_client_host_name(e, o) == [e EXCEPT !.client_host_name = o]

set_destination_host_name(e, o) == [e EXCEPT !.destination_host_name = o]

set_destination_path(e, o) == [e EXCEPT !.destination_path = o]

set_start_timestamp(e, o) == [e EXCEPT !.start_timestamp = o]

set_finish_timestamp(e, o) == [e EXCEPT !.finish_timestamp = o]

set_duration(e, o) == [e EXCEPT !.duration = o]

set_duration_in_ms(e, o) == [e EXCEPT !.duration_in_ms = o]

set_response_code(e, o) == [e EXCEPT !.response_code = o]

set_response(e, o) == [e EXCEPT !.response = o]

\* the setter of the optional field named f
set_optional(e, f, o) ==
    CASE f = "correlation_id" -> set_correlation_id(e, o)
      [] f = "timestamp" -> set_timestamp(e, o)
      [] f = "message_detail" -> set_message_detail(e, o)
      [] f = "host" -> set_host(e, o)
      [] f = "application_version" -> set_application_version(e, o)
      [] f = "data_center" -> set_data_center(e, o)
      [] f = "client_host_name" -> set_client_host_name(e, o)
      [] f = "destination_host_name" -> set_destination_host_name(e, o)
      [] f = "destination_path" -> set_destination_path(e, o)
      [] f = "start_timestamp" -> set_start_timestamp(e, o)
      [] f = "finish_timestamp" -> set_finish_timestamp(e, o)
      [] f = "duration" -> set_duration(e, o)
      [] f = "duration_in_ms" -> set_duration_in_ms(e, o)
      [] f = "response_code" -> set_response_code(e, o)
      [] f = "response" -> set_response(e, o)

(***************************************************************************)
(* serde_json::to_string of an Event and of a Vec<Event>.  The strings of  *)
(* the model hold no character that JSON escapes.                          *)
(***************************************************************************)
JStr(s) == "\"" \o s \o "\""

\* a required member: the key and its value
Member(key, text) == JStr(key) \o ":" \o text

\* a serializer without skip_serializing_if: null for None
OptMemberNull(key, o, text) ==
    IF IsSome(o) THEN "," \o Member(key, text) ELSE "," \o Member(key, "null")

\* skip_serializing_if = "Option::is_none": no member at all for None
OptMember(key, o, text) == IF IsSome(o) THEN "," \o Member(key, text) ELSE ""

RECURSIVE MapMembers(_)
MapMembers(kvs) ==
    IF kvs = <<>> THEN ""
    ELSE Member(kvs[1][1], JStr(kvs[1][2]))
             \o (IF Len(kvs) > 1 THEN "," ELSE "") \o MapMembers(Tail(kvs))

\* the value of an optional member, evaluated only for Some
OptText(o, kind) ==
    IF ~IsSome(o) THEN ""
    ELSE CASE kind = "str" -> JStr(o[1])
           [] kind = "int" -> IntToString(o[1])
           [] kind = "wide" -> WideToString(o[1])
           [] kind = "uuid" -> JStr(UuidToString(o[1]))
           [] kind = "map" -> "{" \o MapMembers(o[1]) \o "}"
           [] kind = "response" -> JStr(ResponseSer(o[1]))

EventJson(e) ==
    "{" \o Member("routingKey", JStr(e.routing_key))
        \o "," \o Member("type", JStr(EventTypeSer(e.event_type)))
        \o "," \o Member("message", JStr(e.message))
        \o OptMember("correlationId", e.correlation_id, OptText(e.correlation_id, "uuid"))
        \o OptMember("timestamp", e.timestamp, OptText(e.timestamp, "wide"))
        \o OptMember("messageDetail", e.message_detail, OptText(e.message_detail, "map"))
        \o OptMember("host", e.host, OptText(e.host, "str"))
        \o OptMember("applicationVersion", e.application_version,
                     OptText(e.application_version, "str"))
        \o OptMember("dataCenter", e.data_center, OptText(e.data_center, "str"))
        \o OptMember("clientHostName", e.client_host_name,
                     OptText(e.client_host_name, "str"))
        \o OptMember("destinationHostName", e.destination_host_name,
                     OptText(e.destination_host_name, "str"))
        \o OptMember("destinationPath", e.destination_path,
                     OptText(e.destination_path, "str"))
        \o OptMember("startTimestamp", e.start_timestamp,
                     OptText(e.start_timestamp, "int"))
        \o OptMember("finishTimestamp", e.finish_timestamp,
                     OptText(e.finish_timestamp, "int"))
        \o OptMember("duration", e.duration, OptText(e.duration, "int"))
        \o OptMember("durationInMs", e.duration_in_ms,
                     OptText(e.duration_in_ms, "int"))
        \o OptMember("responseCode", e.response_code,
                     OptText(e.response_code, "int"))
        \o OptMember("response", e.response, OptText(e.response, "response"))
        \o "}"

RECURSIVE EventsJson(_)
EventsJson(evs) ==
    IF evs = <<>> THEN ""
    ELSE EventJson(Head(evs)) \o (IF Len(evs) > 1 THEN "," ELSE "")
             \o EventsJson(Tail(evs))

\* serde_json::to_string(&events_clone): Ok(text) for every Vec<Event>
to_string(evs) == [ok |-> TRUE, json |-> "[" \o EventsJson(evs) \o "]"]

(***************************************************************************)
(* Payload: Payload::default() and its generated setters.                  *)
(***************************************************************************)
PayloadDefault ==
    [url |-> CollectorUrlDefault, events |-> <<>>, logger |-> None,
     error_count |-> 0, retry_count |-> 0]

set_url(p, u) == [p EXCEPT !.url = u]

set_events(p, evs) == [p EXCEPT !.events = evs]

set_logger(p, l) == [p EXCEPT !.logger = l]

(***************************************************************************)
(* error.rs: the kinds an exchange can end with.  FutResult<()> is Ok(())  *)
(* or a boxed error; the model names the error by its type.                *)
(***************************************************************************)
ErrKindRun == "Run"

ErrKindSerdeJson == "SerdeJson"

\* hyper::http::Error of Request::builder, hyper::Error of the client and body
HttpError == "hyper::http::Error"

HyperError == "hyper::Error"

(***************************************************************************)
(* slog through slog_try: try_trace! and try_error! log only when the      *)
(* Option<Logger> is Some.  An entry is its level and its formatted text.  *)
(***************************************************************************)
\* a logging call that does not look at the Option
try_log_always(logger, log, level, msg) == Append(log, [level |-> level, msg |-> msg])

try_log(logger, log, level, msg) ==
    IF IsSome(logger) THEN Append(log, [level |-> level, msg |-> msg]) ELSE log

try_trace(logger, log, msg) == try_log(logger, log, "trace", msg)

try_error(logger, log, msg) == try_log(logger, log, "error", msg)

(***************************************************************************)
(* hyper::StatusCode: the class tests and Display ("<code> <reason>").     *)
(***************************************************************************)
\* a success test that knows 200 only
is_success_only_200(status) == status = 200

is_success(status) == 200 <= status /\ status < 300

is_client_error(status) == 400 <= status /\ status < 500

is_server_error(status) == 500 <= status /\ status < 600

canonical_reason(status) ==
    CASE status = 200 -> "OK"
      [] status = 204 -> "No Content"
      [] status = 301 -> "Moved Permanently"
      [] status = 404 -> "Not Found"
      [] status = 500 -> "Internal Server Error"
      [] OTHER -> "<unknown status code>"

StatusDisplay(status) == IntToString(status) \o " " \o canonical_reason(status)

\* the two labels exchanged
err_type_swapped(status) ==
    IF status >= 400 /\ status < 500 THEN "Server"
    ELSE IF status >= 500 /\ status < 600 THEN "Client"
    ELSE "Unknown"

\* run_impl's classification of a non-2xx status
err_type(status) ==
    IF is_client_error(status) THEN "Client"
    ELSE IF is_server_error(status) THEN "Server"
    ELSE "Unknown"

(***************************************************************************)
(* String::from_utf8_lossy over the bytes the model's collector sends:     *)
(* ASCII bytes are their characters, a byte that cannot occur in UTF-8     *)
(* (0xFF) becomes U+FFFD.                                                  *)
(***************************************************************************)
ReplacementChar == "<U+FFFD>"

CharOf(b) ==
    CASE b = 111 -> "o"
      [] b = 112 -> "p"
      [] b = 115 -> "s"
      [] OTHER -> ReplacementChar

RECURSIVE from_utf8_lossy(_)
from_utf8_lossy(bytes) ==
    IF bytes = <<>> THEN ""
    ELSE CharOf(Head(bytes)) \o from_utf8_lossy(Tail(bytes))

(***************************************************************************)
(* The request run_impl builds.                                            *)
(***************************************************************************)
\* env!("CARGO_PKG_NAME") and env!("CARGO_PKG_VERSION"), set by the build
CARGO_PKG_NAME == "libechoexec"

CARGO_PKG_VERSION == "0.1.0"

USER_AGENT == CARGO_PKG_NAME \o "/" \o CARGO_PKG_VERSION

\* Uri parsing inside Request::builder: the two collector literals parse, so
\* the Err branch of the `?` at line 86 is never taken from spawn
UriParses(uri) == uri \in {as_str(u) : u \in CollectorUrl}

BuildRequest(url, json) ==
    LET length == Len(json)
    IN  IF UriParses(url)
        THEN [ok |-> TRUE,
              request |->
                  [method |-> "POST", uri |-> url,
                   headers |-> <<<<"User-Agent", USER_AGENT>>,
                                 <<"Content-Type", "application/json">>,
                                 <<"Content-Length", IntToString(length)>>>>,
                   body |-> json]]
        ELSE [ok |-> FALSE, request |-> None]

(***************************************************************************)
(* Spawner::spawn, in the order of its statements.                         *)
(***************************************************************************)
\* a capture that resolves the default url instead of the payload's
CaptureDefaultUrl(p, client) ==
    [events_clone |-> p.events, client |-> client, logger |-> p.logger,
     uri |-> as_str(CollectorUrlDefault)]

\* lines 47-53: the clones and the resolved url taken from &Payload
Capture(p, client) ==
    [events_clone |-> p.events, client |-> client, logger |-> p.logger,
     uri |-> as_str(p.url)]

\* the future handed to rt.spawn: run_impl(client, logger, uri, json), not yet
\* polled.  Its fields: call, the index of the spawn call that made it; the
\* four arguments of run_impl; pc, where run_impl stands ("spawned": not yet
\* polled, "request": awaiting client.request, "body": awaiting body.next(),
\* "done": returned); res, the FutResult it returned; sent, the requests it
\* handed to the client; net, the network events it was resumed with;
\* buffer, the body bytes written so far; log, the entries it logged.
NewTask(cap, json, call) ==
    [call |-> call, client |-> cap.client, logger |-> cap.logger,
     url |-> cap.uri, json |-> json,
     pc |-> "spawned", res |-> None, sent |-> <<>>, net |-> <<>>,
     buffer |-> <<>>, log |-> <<>>]

\* a runtime queue that keeps only the latest future when two are submitted
ScheduleLossy(ts, task) ==
    IF ts = <<>> THEN <<task>> ELSE [ts EXCEPT ![Len(ts)] = task]

\* rt.spawn: the runtime takes the future; the JoinHandle is dropped
Schedule(ts, task) == Append(ts, task)

\* a spawn that hands the future to the runtime before it looks at the
\* serializer's result
SpawnTasksEager(ts, ser, cap, call) == Schedule(ts, NewTask(cap, ser.json, call))

\* lines 54-58: the `?` on the serializer's result returns before rt.spawn
SpawnTasks(ts, ser, cap, call) ==
    IF ser.ok THEN Schedule(ts, NewTask(cap, ser.json, call)) ELSE ts

\* what the call has returned when rt.spawn is done (line 58): the error of
\* the `?` on the serializer's result, else nothing yet
SpawnReturn(ser) == IF ser.ok THEN None ELSE Some(ErrKindSerdeJson)

\* a spawn that joins its future before it returns
ReturnReadyJoined(ts, t) == ts[t].pc = "done"

\* lines 56-60: `let _ =` drops the JoinHandle and Ok(()) follows; the
\* return waits for nothing the future t does
ReturnReady(ts, t) == TRUE

(***************************************************************************)
(* The spawned future `async { let _res = run_impl(..).await; }`: its      *)
(* output is (), so the outcome of run_impl reaches neither the runtime    *)
(* nor the caller, whose JoinHandle spawn dropped.                         *)
(***************************************************************************)
\* a runtime that an Err of run_impl takes down
RuntimeAfterPropagate(rt, res) == IF res = "Ok" THEN rt ELSE "shutdown"

RuntimeAfter(rt, res) == rt

\* a spawn whose caller gets the result of the exchange (a join on the future)
CallerVisiblePropagate(ret, res) == IF res = "Ok" THEN ret ELSE Some(res)

CallerVisible(ret, res) == ret

\* a dispatcher that counts a failed exchange in the caller's Payload
PayloadAfterCounting(p, res) ==
    IF res = "Ok" THEN p ELSE [p EXCEPT !.error_count = @ + 1]

\* run_impl gets the clones spawn made and no reference to the Payload
PayloadAfter(p, res) == p

(***************************************************************************)
(* run_impl, one operator per stretch between two suspension points.       *)
(***************************************************************************)
\* a return that puts a failed exchange back in the runtime's queue once
FinishRetry(task, res) ==
    IF res = "Ok" \/ Len(task.sent) >= 2
    THEN [task EXCEPT !.pc = "done", !.res = Some(res)]
    ELSE [task EXCEPT !.pc = "spawned"]

Finish(task, res) == [task EXCEPT !.pc = "done", !.res = Some(res)]

\* lines 78-88: build the request and hand it to client.request
run_impl_start(task) ==
    LET req == BuildRequest(task.url, task.json)
    IN  IF req.ok
        THEN [task EXCEPT !.pc = "request", !.sent = Append(@, req.request)]
        ELSE Finish(task, HttpError)

\* lines 88-108: client.request(req).await resolved with r
run_impl_response(task, r) ==
    LET seen == [task EXCEPT !.net = Append(@, r)]
    IN  IF ~r.ok THEN Finish(seen, HyperError)
        ELSE IF is_success(r.status)
        THEN Finish([seen EXCEPT !.log =
                        try_trace(task.logger, @, "Successfully sent payload to echo")],
                    "Ok")
        ELSE [seen EXCEPT
                !.pc = "body",
                !.log = try_error(task.logger, @,
                                  err_type(r.status) \o " error sending Echo Payload: "
                                      \o StatusDisplay(r.status))]

\* a body loop that, when a read fails, logs what it has read and ends as if
\* the body had ended
run_impl_body_partial(task, ev) ==
    LET seen == [task EXCEPT !.net = Append(@, ev)]
    IN  IF ev.kind = "chunk" /\ ev.ok
        THEN [seen EXCEPT !.buffer = @ \o ev.bytes]
        ELSE [seen EXCEPT
                !.log = try_error(task.logger, @, from_utf8_lossy(task.buffer)),
                !.pc = "done", !.res = Some(ErrKindRun)]

\* lines 110-115: body.next().await resolved with ev
run_impl_body(task, ev) ==
    LET seen == [task EXCEPT !.net = Append(@, ev)]
    IN  CASE ev.kind = "chunk" /\ ev.ok -> [seen EXCEPT !.buffer = @ \o ev.bytes]
          [] ev.kind = "chunk" /\ ~ev.ok -> Finish(seen, HyperError)
          [] ev.kind = "end" ->
                Finish([seen EXCEPT !.log =
                           try_error(task.logger, @, from_utf8_lossy(task.buffer))],
                       ErrKindRun)

(***************************************************************************)
(* What the network can hand to a task.  Every event has the same shape:   *)
(* kind "head" is the result of client.request (ok: a response with its    *)
(* status; not ok: a transport error), kind "chunk" is Some(Ok(bytes)) or  *)
(* Some(Err(e)) of body.next(), kind "end" is its None.                    *)
(***************************************************************************)
NetEvent(kind, ok, status, bytes) ==
    [kind |-> kind, ok |-> ok, status |-> status, bytes |-> bytes]

Statuses == {200, 204, 301, 404, 500}

\* the body the model's collector sends with each status, as the chunks hyper
\* hands over: "oo" then "ps" with 500, one byte that is not UTF-8 with 404,
\* nothing otherwise; a body may also end after any prefix of it
BodyOf(status) ==
    CASE status = 500 -> <<<<111, 111>>, <<112, 115>>>>
      [] status = 404 -> <<<<255>>>>
      [] OTHER -> <<>>

ChunkSet == UNION {{BodyOf(st)[i] : i \in 1..Len(BodyOf(st))} : st \in Statuses}

TransportError == NetEvent("head", FALSE, 0, <<>>)

Responses == {TransportError} \cup {NetEvent("head", TRUE, s, <<>>) : s \in Statuses}

\* the results of a collector that is down or healthy
PlainResponses == {TransportError, NetEvent("head", TRUE, 200, <<>>)}

\* the chunks body.next() has handed to the task so far
ChunksRead(task) ==
    LET got == SelectSeq(task.net, LAMBDA ev : ev.kind = "chunk" /\ ev.ok)
    IN  [i \in 1..Len(got) |-> got[i].bytes]

IsPrefix(s, t) == Len(s) <= Len(t) /\ SubSeq(t, 1, Len(s)) = s

\* results of body.next(): the next chunk of a body, a read error, or the end
BodyEvents(task) ==
    {NetEvent("chunk", TRUE, 0, c) : c \in
        {c \in ChunkSet : IsPrefix(Append(ChunksRead(task), c), BodyOf(task.net[1].status))}}
    \cup {NetEvent("chunk", FALSE, 0, <<>>), NetEvent("end", TRUE, 0, <<>>)}

(***************************************************************************)
(* The state after construction: Spawner::new() returned Ok, the caller    *)
(* holds the Event of the tests and a Payload of that Event, as the tests   *)
(* build them before their first spawn.                                    *)
(***************************************************************************)
TestUuid == <<53, 243, 225, 214, 216, 89, 74, 160, 140, 88, 44, 223, 233, 122, 71, 16>>

TestEvent ==
    set_correlation_id(
        set_message(
            set_event_type(set_routing_key(EventDefault, "atlas-local-promises"),
                           "System"),
            "testing"),
        Some(TestUuid))

Messages == {"testing", "Message: 0"}

\* the routing key and the event types the serialization tests set
RoutingKeys == {"atlas-dev-promises"}

EventTypes == {"Performance", "System"}

Loggers == {None, Some("logger")}

\* Utc::now().timestamp_millis() at the time the test ran
Now == Wide(1793, 233065260)

Init ==
    /\ spawner = [rt |-> "running", client |-> "client"]
    /\ echo_event = set_timestamp(TestEvent, Some(Now))
    /\ payload = set_events(set_logger(PayloadDefault, Some("logger")), <<echo_event>>)
    /\ calls = <<>>
    /\ tasks = <<>>

(***************************************************************************)
(* The optional fields of Event in declaration order, with the values the  *)
(* test `full` gives them.                                                 *)
(***************************************************************************)
OptionalFields ==
    <<"correlation_id", "timestamp", "message_detail", "host",
      "application_version", "data_center", "client_host_name",
      "destination_host_name", "destination_path", "start_timestamp",
      "finish_timestamp", "duration", "duration_in_ms", "response_code",
      "response">>

FullValue(f) ==
    CASE f = "correlation_id" -> TestUuid
      [] f = "timestamp" -> Wide(196, 300801666)
      [] f = "message_detail" -> <<<<"a", "b">>>>
      [] f = "host" -> "host"
      [] f = "application_version" -> "1.2.3"
      [] f = "data_center" -> "cdc"
      [] f = "client_host_name" -> "blah"
      [] f = "destination_host_name" -> "blah1"
      [] f = "destination_path" -> "yoda"
      [] f = "start_timestamp" -> 1
      [] f = "finish_timestamp" -> 2
      [] f = "duration" -> 3
      [] f = "duration_in_ms" -> 4
      [] f = "response_code" -> 200
      [] f = "response" -> "Failure"

\* Event::default(), as the serialization tests start
InitEvent ==
    /\ spawner = [rt |-> "running", client |-> "client"]
    /\ echo_event = EventDefault
    /\ payload = PayloadDefault
    /\ calls = <<>>
    /\ tasks = <<>>

(***************************************************************************)
(* The callers.                                                            *)
(***************************************************************************)
\* The callers are threads that share the Spawner.  spawn takes &self and
\* holds no lock, so calls of spawn overlap.  A Payload is a plain value that
\* each caller builds for itself (line 555); a call of spawn borrows only the
\* Payload it is passed, kept in calls[i].payload, so a caller builds and
\* edits its own Payload while other calls are in progress.  `payload' is the
\* Payload of the caller that moves next.
\* call i is inside spawn: rt.spawn took its future (line 56) and Ok(())
\* (line 60) is not yet returned
InCall(i) == i \in 1..Len(calls) /\ calls[i].ret = None

\* echo_event.set_<f>(Some(v)) for an optional field f
SetSome ==
    /\ \E k \in 1..Len(OptionalFields) :
          echo_event' = set_optional(echo_event, OptionalFields[k],
                                     Some(FullValue(OptionalFields[k])))
    /\ echo_event' # echo_event
    /\ UNCHANGED <<spawner, payload, calls, tasks>>

\* echo_event.set_<f>(None) for an optional field f
SetNone ==
    /\ \E k \in 1..Len(OptionalFields) :
          echo_event' = set_optional(echo_event, OptionalFields[k], None)
    /\ echo_event' # echo_event
    /\ UNCHANGED <<spawner, payload, calls, tasks>>

\* echo_event.set_routing_key(k)
SetRoutingKey ==
    /\ \E k \in RoutingKeys : echo_event' = set_routing_key(echo_event, k)
    /\ echo_event' # echo_event
    /\ UNCHANGED <<spawner, payload, calls, tasks>>

\* echo_event.set_event_type(t)
SetEventType ==
    /\ \E t \in EventTypes : echo_event' = set_event_type(echo_event, t)
    /\ echo_event' # echo_event
    /\ UNCHANGED <<spawner, payload, calls, tasks>>

\* echo_event.set_message(m)
SetMessage ==
    /\ \E m \in Messages : echo_event' = set_message(echo_event, m)
    /\ echo_event' # echo_event
    /\ UNCHANGED <<spawner, payload, calls, tasks>>

\* payload.set_events(vec![echo_event.clone()])
SetEvents ==
    /\ payload' = set_events(payload, <<echo_event>>)
    /\ payload' # payload
    /\ UNCHANGED <<spawner, echo_event, calls, tasks>>

\* payload.set_logger(l)
SetLogger ==
    /\ \E l \in Loggers : payload' = set_logger(payload, l)
    /\ payload' # payload
    /\ UNCHANGED <<spawner, echo_event, calls, tasks>>

\* payload.set_url(u)
SetUrl ==
    /\ \E u \in CollectorUrl : payload' = set_url(payload, u)
    /\ payload' # payload
    /\ UNCHANGED <<spawner, echo_event, calls, tasks>>

\* a caller builds a new Payload: Payload::default()
NewPayload ==
    /\ payload # PayloadDefault
    /\ payload' = PayloadDefault
    /\ UNCHANGED <<spawner, echo_event, calls, tasks>>

\* echo_spawner.spawn(&payload) up to rt.spawn (lines 46-58): either the `?`
\* returned the serializer's error, or the future is with the runtime and the
\* call has yet to return.  fault: the serializer returns Err, which no
\* Vec<Event> makes it do; only SpecFault takes that branch.
spawn(fault) ==
    /\ spawner.rt = "running"
    /\ Len(calls) < MaxSpawns
    /\ LET cap == Capture(payload, spawner.client)
           ser == IF fault THEN [ok |-> FALSE, json |-> ""]
                  ELSE to_string(cap.events_clone)
           call == Len(calls) + 1
       IN  /\ tasks' = SpawnTasks(tasks, ser, cap, call)
           /\ calls' = Append(calls, [ret |-> SpawnReturn(ser),
                                      task |-> IF Len(tasks') > Len(tasks)
                                               THEN Len(tasks') ELSE 0,
                                      payload |-> payload])
    /\ UNCHANGED <<spawner, echo_event, payload>>

Spawn == spawn(FALSE)

SpawnSerdeErr == spawn(TRUE)

\* line 60: call i returns Ok(()).  The workers may have polled its future
\* since rt.spawn, or not; other calls may have begun or returned.
SpawnOk(i) ==
    /\ InCall(i)
    /\ ReturnReady(tasks, calls[i].task)
    /\ calls' = [calls EXCEPT ![i].ret = Some("Ok")]
    /\ UNCHANGED <<spawner, echo_event, payload, tasks>>

SpawnOkSome == \E i \in 1..MaxSpawns : SpawnOk(i)

(***************************************************************************)
(* The runtime: it polls any spawned future that has not finished, as soon *)
(* as what the future awaits is there, whatever the other futures do.      *)
(***************************************************************************)
\* a runtime that drives one future at a time, in spawn order
ReadyInOrder(ts, t) ==
    /\ t \in 1..Len(ts)
    /\ ts[t].pc # "done"
    /\ \A u \in 1..(t - 1) : ts[u].pc = "done"

Ready(ts, t) == t \in 1..Len(ts) /\ ts[t].pc # "done"

\* the future of task t moved to `new`; when run_impl returned, the async
\* block binds its result to _res and ends
Settle(t, new) ==
    /\ tasks' = [tasks EXCEPT ![t] = new]
    /\ IF new.pc = "done"
       THEN /\ spawner' = [spawner EXCEPT !.rt = RuntimeAfter(@, new.res[1])]
            /\ calls' = [calls EXCEPT ![new.call].ret = CallerVisible(@, new.res[1])]
            /\ payload' = PayloadAfter(payload, new.res[1])
       ELSE UNCHANGED <<spawner, calls, payload>>
    /\ UNCHANGED echo_event

\* first poll: up to the await of client.request
Poll(t) ==
    /\ Ready(tasks, t)
    /\ tasks[t].pc = "spawned"
    /\ Settle(t, run_impl_start(tasks[t]))

\* client.request resolves with r
Respond(t, r) ==
    /\ Ready(tasks, t)
    /\ tasks[t].pc = "request"
    /\ Settle(t, run_impl_response(tasks[t], r))

\* body.next() resolves with ev
Body(t, ev) ==
    /\ Ready(tasks, t)
    /\ tasks[t].pc = "body"
    /\ ev \in BodyEvents(tasks[t])
    /\ Settle(t, run_impl_body(tasks[t], ev))

PollSome == \E t \in 1..MaxSpawns : Poll(t)

RespondSome == \E t \in 1..MaxSpawns : \E r \in Responses : Respond(t, r)

RespondPlain == \E t \in 1..MaxSpawns : \E r \in PlainResponses : Respond(t, r)

BodySome ==
    \E t \in 1..MaxSpawns :
        \E ev \in {NetEvent(k, o, 0, c) : k \in {"chunk", "end"}, o \in BOOLEAN,
                                          c \in ChunkSet \cup {<<>>}} :
            Body(t, ev)

(***************************************************************************)
(* Specifications.                                                         *)
(*   Spec        the dispatcher against every network outcome              *)
(*   SpecCaller  the caller editing, dropping and resubmitting its Payload *)
(*               against a collector that is down or healthy               *)
(*   SpecFault   Spec with the serializer allowed to return Err            *)
(* In each of them a call of spawn is two steps, rt.spawn and the return   *)
(* of Ok(()); the workers of the runtime may run in between and other      *)
(* threads may call spawn in between.                                      *)
(*   FairSpec    the dispatcher where the runtime polls every spawned      *)
(*               future and every awaited network event arrives            *)
(*   SpecEvent   the caller setting the required fields and setting and    *)
(*               clearing the optional fields of its Event                 *)
(***************************************************************************)
Next == SetLogger \/ Spawn \/ SpawnOkSome \/ PollSome \/ RespondSome \/ BodySome

Spec == Init /\ [][Next]_vars

NextCaller ==
    \/ SetMessage \/ SetEvents \/ SetUrl \/ NewPayload
    \/ Spawn \/ SpawnOkSome \/ PollSome \/ RespondPlain

SpecCaller == Init /\ [][NextCaller]_vars

NextFault == SetLogger \/ Spawn \/ SpawnSerdeErr \/ SpawnOkSome \/ PollSome \/ RespondPlain

SpecFault == Init /\ [][NextFault]_vars

NextNet == Spawn \/ SpawnOkSome \/ PollSome \/ RespondSome \/ BodySome

FairSpec ==
    /\ Init /\ [][NextNet]_vars
    /\ \A t \in 1..MaxSpawns :
        /\ WF_vars(Poll(t))
        /\ WF_vars(\E r \in Responses : Respond(t, r))
        /\ WF_vars(Body(t, NetEvent("end", TRUE, 0, <<>>))
                   \/ Body(t, NetEvent("chunk", FALSE, 0, <<>>))
                   \/ \E c \in ChunkSet : Body(t, NetEvent("chunk", TRUE, 0, c)))

NextEvent == SetRoutingKey \/ SetEventType \/ SetSome \/ SetNone

SpecEvent == InitEvent /\ [][NextEvent]_vars

(***************************************************************************)
(* Vocabulary of the properties.                                           *)
(***************************************************************************)
TaskIds == 1..Len(tasks)

CallIds == 1..Len(calls)

Done(t) == tasks[t].pc = "done"

Succeeded(t) == Done(t) /\ tasks[t].res = Some("Ok")

Failed(t) == Done(t) /\ tasks[t].res # Some("Ok")

HasLogger(t) == IsSome(tasks[t].logger)

\* the head of the response task t received, if it received one
GotResponse(t) == tasks[t].net # <<>> /\ tasks[t].net[1].ok

StatusOf(t) == tasks[t].net[1].status

TasksOfCall(i) == {t \in TaskIds : tasks[t].call = i}

(***************************************************************************)
(* C1.  Every call of spawn whose events serialize returns Ok(()), and     *)
(* keeps that return value whatever its exchange comes to: a transport     *)
(* error, a non-2xx response or a 2xx response changes neither the value   *)
(* the caller gets nor the runtime, which stays running.                   *)
(***************************************************************************)
\* C1: no spawn call has returned anything but Ok and the runtime is running
SpawnAlwaysOk ==
    /\ spawner.rt = "running"
    /\ \A i \in CallIds : calls[i].ret \in {None, Some("Ok")}

\* a call that returned Ok although its exchange failed in transport, beside
\* one whose exchange ended on a non-2xx response
SpawnOkDespiteFailure ==
    \E i, j \in CallIds :
        /\ calls[i].ret = Some("Ok") /\ calls[j].ret = Some("Ok")
        /\ calls[i].task \in TaskIds /\ calls[j].task \in TaskIds
        /\ tasks[calls[i].task].res = Some(HyperError)
        /\ tasks[calls[j].task].res = Some(ErrKindRun)

(***************************************************************************)
(* C2.  Every call that returned Ok(()) has exactly one future, a future   *)
(* issues at most one POST, and when the runtime polls every future and    *)
(* every awaited network event arrives, each future ends (Ok or Err)       *)
(* having issued exactly one POST: N calls make N requests.                *)
(***************************************************************************)
OneTaskPerCall ==
    \A i \in CallIds :
        calls[i].ret # Some(ErrKindSerdeJson) =>
            /\ TasksOfCall(i) = {calls[i].task}
            /\ calls[i].task \in TaskIds

AtMostOnePost == \A t \in TaskIds : Len(tasks[t].sent) <= 1

\* the future of call i ended and issued exactly one request, a POST
ExchangeComplete(i) ==
    IF i \in CallIds /\ calls[i].task \in TaskIds
    THEN /\ Done(calls[i].task)
         /\ Len(tasks[calls[i].task].sent) = 1
         /\ tasks[calls[i].task].sent[1].method = "POST"
    ELSE FALSE

\* C2: one future per Ok call, at most one POST per future, and under
\* fairness every call's future ends having issued exactly one POST
AllExchangesComplete ==
    /\ [](OneTaskPerCall /\ AtMostOnePost)
    /\ \A i \in 1..MaxSpawns : [](i \in CallIds => <>ExchangeComplete(i))

\* MaxSpawns calls were made, every future ended, one POST each
AllCallsDone ==
    /\ Len(calls) = MaxSpawns
    /\ Len(tasks) = MaxSpawns
    /\ \A t \in TaskIds : Done(t) /\ Len(tasks[t].sent) = 1

(***************************************************************************)
(* C3.  Failed and hanging exchanges leave the dispatcher usable and the   *)
(* other exchanges alone: while calls remain, spawn can be called, returns *)
(* Ok(()) and schedules one new future without touching the others; and   *)
(* the result of every finished future is the one its own response         *)
(* dictates.                                                               *)
(***************************************************************************)
\* the result run_impl must reach on a transcript of network events
ResultFor(net) ==
    IF ~net[1].ok THEN HyperError
    ELSE IF net[1].status \in 200..299 THEN "Ok"
    ELSE IF net[Len(net)].kind = "end" THEN ErrKindRun
    ELSE HyperError

SpawnSchedulesOne ==
    /\ Len(tasks') = Len(tasks) + 1
    /\ tasks'[Len(tasks')].pc = "spawned"
    /\ calls'[Len(calls')].ret # Some(ErrKindSerdeJson)
    /\ \A t \in TaskIds : tasks'[t] = tasks[t]

\* C3: spawn stays callable and schedules one future whatever the other
\* futures did, no call returns an error, and each finished future has the
\* result of its own transcript
FailureIsolated ==
    /\ Len(calls) < MaxSpawns => ENABLED (Spawn /\ SpawnSchedulesOne)
    /\ \A i \in CallIds : calls[i].ret \in {None, Some("Ok")}
    /\ \A t \in TaskIds : Done(t) => tasks[t].res = Some(ResultFor(tasks[t].net))

\* a further call is due while one exchange failed
SpawnAfterFailure ==
    /\ Len(calls) < MaxSpawns
    /\ \E t \in TaskIds : Failed(t)

(***************************************************************************)
(* C4.  When the serializer returns Err, spawn returns the SerdeJson error *)
(* and no future exists for that call, so no request is issued for it; a   *)
(* future is born holding the JSON of the events it was called with.       *)
(***************************************************************************)
\* C4: a SerdeJson return has no future; every future holds the JSON of
\* its call's events
SerializeBeforeSchedule ==
    /\ \A i \in CallIds :
        calls[i].ret = Some(ErrKindSerdeJson) =>
            calls[i].task = 0 /\ TasksOfCall(i) = {}
    /\ \A t \in TaskIds :
        /\ tasks[t].call \in CallIds
        /\ calls[tasks[t].call].ret # Some(ErrKindSerdeJson)
        /\ tasks[t].json = to_string(calls[tasks[t].call].payload.events).json

\* a call that returned the serializer's error, beside one whose request went out
SerdeErrorReturned ==
    \E i, j \in CallIds :
        /\ calls[i].ret = Some(ErrKindSerdeJson)
        /\ calls[j].ret = Some("Ok")
        /\ Len(tasks[calls[j].task].sent) = 1

(***************************************************************************)
(* C5.  Every future that fails while holding a logger has logged at       *)
(* least one entry.                                                        *)
(***************************************************************************)
\* C5: a failed future with a logger has at least one log entry
EveryFailureLogged ==
    \A t \in TaskIds : (Failed(t) /\ HasLogger(t)) => Len(tasks[t].log) >= 1

(***************************************************************************)
(* C6.  A future with a logger that received a non-2xx response and read   *)
(* its body to the end logged exactly two error entries: first the         *)
(* classification (Client for 4xx, Server for 5xx, Unknown otherwise) with *)
(* the status, then the whole body; it ended with ErrKind::Run and its     *)
(* spawn call returned Ok.  Status 500 with body "oops": one entry holds   *)
(* "Server", one holds "oops".                                             *)
(***************************************************************************)
Contains(str, sub) ==
    \E i \in 1..(Len(str) - Len(sub) + 1) : SubSeq(str, i, i + Len(sub) - 1) = sub

StartsWith(str, sub) == Len(sub) <= Len(str) /\ SubSeq(str, 1, Len(sub)) = sub

ClassOf(status) ==
    CASE status \in 400..499 -> "Client"
      [] status \in 500..599 -> "Server"
      [] OTHER -> "Unknown"

RECURSIVE Flatten(_)
Flatten(chunks) ==
    IF chunks = <<>> THEN <<>> ELSE Head(chunks) \o Flatten(Tail(chunks))

\* the text of all the body bytes the network handed to task t
BodyText(t) == from_utf8_lossy(Flatten(ChunksRead(tasks[t])))

NonSuccess(t) == GotResponse(t) /\ StatusOf(t) \notin 200..299

\* the body of t's response ended (None of body.next()) without a read error
Drained(t) == tasks[t].net[Len(tasks[t].net)].kind = "end"

TwoErrorEntries(t) ==
    LET log == tasks[t].log
    IN  /\ Len(log) = 2
        /\ log[1].level = "error" /\ log[2].level = "error"
        /\ StartsWith(log[1].msg, ClassOf(StatusOf(t)) \o " error")
        /\ Contains(log[1].msg, IntToString(StatusOf(t)))
        /\ log[2].msg = BodyText(t)
        /\ (StatusOf(t) = 500 /\ BodyText(t) = "oops") =>
              /\ Cardinality({k \in 1..2 : StartsWith(log[k].msg, "Server")}) = 1
              /\ Cardinality({k \in 1..2 : Contains(log[k].msg, "oops")}) = 1
        /\ tasks[t].res = Some(ErrKindRun)
        /\ calls[tasks[t].call].ret \in {None, Some("Ok")}

\* C6 as the specification states it: two error entries and ErrKind::Run for
\* every non-2xx response received with a logger
NonSuccessLogsTwice ==
    \A t \in TaskIds :
        (Done(t) /\ HasLogger(t) /\ NonSuccess(t)) => TwoErrorEntries(t)

\* C6: two error entries, classification then body, and ErrKind::Run for
\* every non-2xx response received with a logger whose body was read to its end
DrainedNonSuccessLogsTwice ==
    \A t \in TaskIds :
        (Done(t) /\ HasLogger(t) /\ NonSuccess(t) /\ Drained(t)) => TwoErrorEntries(t)

\* status 500, body "oops" in two chunks, logger present, future ended
ServerErrorOops ==
    \E t \in TaskIds :
        /\ Done(t) /\ HasLogger(t) /\ NonSuccess(t) /\ Drained(t)
        /\ StatusOf(t) = 500
        /\ BodyText(t) = "oops"

(***************************************************************************)
(* C7.  A future that received a 2xx response ended at once with Ok: with  *)
(* a logger it logged the one trace entry of success and nothing else, it  *)
(* read no body; and no future ever holds both a trace and an error entry. *)
(***************************************************************************)
LevelsOf(t) == {tasks[t].log[k].level : k \in 1..Len(tasks[t].log)}

\* C7: a 2xx response ends the future with Ok, one trace entry, no error
\* entry, no body read; trace and error entries never meet in one future
SuccessLogsOnce ==
    /\ \A t \in TaskIds :
        (GotResponse(t) /\ StatusOf(t) \in 200..299) =>
            /\ Succeeded(t)
            /\ tasks[t].log =
                  IF HasLogger(t)
                  THEN <<[level |-> "trace", msg |-> "Successfully sent payload to echo"]>>
                  ELSE <<>>
            /\ Len(tasks[t].net) = 1
            /\ tasks[t].buffer = <<>>
    /\ \A t \in TaskIds : ~({"trace", "error"} \subseteq LevelsOf(t))
    /\ \A t \in TaskIds : "trace" \in LevelsOf(t) => Succeeded(t)

\* a 204 response to a future that holds a logger
NoContentLogged ==
    \E t \in TaskIds :
        /\ HasLogger(t) /\ GotResponse(t) /\ StatusOf(t) = 204
        /\ Succeeded(t)
        /\ Len(tasks[t].log) = 1

(***************************************************************************)
(* C8.  Without a logger a future logs nothing, and it does what a future  *)
(* with a logger does on the same request and the same network events:     *)
(* same position, same request sent, same body bytes read, same result.    *)
(***************************************************************************)
Polled(t) == tasks[t].pc # "spawned"

\* the same inputs: the request data, the first poll, the network events
SameExchange(t, u) ==
    /\ tasks[t].url = tasks[u].url
    /\ tasks[t].json = tasks[u].json
    /\ Polled(t) = Polled(u)
    /\ tasks[t].net = tasks[u].net

\* C8: no entry without a logger, and the same steps and result as a future
\* with a logger on the same inputs
AbsentLoggerIsNoOp ==
    /\ \A u \in TaskIds : ~HasLogger(u) => tasks[u].log = <<>>
    /\ \A t, u \in TaskIds :
        (HasLogger(t) /\ ~HasLogger(u) /\ SameExchange(t, u)) =>
            /\ tasks[t].pc = tasks[u].pc
            /\ tasks[t].res = tasks[u].res
            /\ tasks[t].sent = tasks[u].sent
            /\ tasks[t].buffer = tasks[u].buffer

\* one future with a logger and one without, both through the same non-2xx
\* response and its body
TwinExchanges ==
    \E t, u \in TaskIds :
        /\ HasLogger(t) /\ ~HasLogger(u) /\ SameExchange(t, u)
        /\ Done(t) /\ Done(u)
        /\ NonSuccess(t) /\ Drained(t) /\ tasks[t].buffer # <<>>
        /\ Len(tasks[t].log) = 2

(***************************************************************************)
(* C9.  A future holds the JSON of the events, the url and the logger of   *)
(* the Payload as it was when spawn was called, and its request carries    *)
(* them, whatever the caller does to the Payload or the Event afterwards.  *)
(***************************************************************************)
CapturedAtSpawn(t) ==
    LET given == calls[tasks[t].call].payload
    IN  /\ tasks[t].json = to_string(given.events).json
        /\ tasks[t].url = as_str(given.url)
        /\ tasks[t].logger = given.logger
        /\ \A k \in 1..Len(tasks[t].sent) :
            /\ tasks[t].sent[k].body = tasks[t].json
            /\ tasks[t].sent[k].uri = tasks[t].url

\* C9: every future and its request hold what the Payload held when spawn
\* was called
TaskOwnsCopies == \A t \in TaskIds : CapturedAtSpawn(t)

\* a request in flight whose body and destination are no longer those of the
\* caller's Payload: the message and the url were changed after spawn
PayloadChangedInFlight ==
    \E t \in TaskIds :
        /\ tasks[t].pc = "request"
        /\ payload.events # <<>>
        /\ calls[tasks[t].call].payload.events # <<>>
        /\ tasks[t].sent[1].body # to_string(payload.events).json
        /\ tasks[t].sent[1].uri # as_str(payload.url)

(***************************************************************************)
(* C10.  No future waits for another: whatever the other futures are       *)
(* doing, a spawned future can be polled, a pending request can be         *)
(* answered and a pending body read can resolve.  So of two exchanges      *)
(* either can finish first, and both can be awaiting their responses at    *)
(* once.                                                                   *)
(***************************************************************************)
\* C10: every unfinished future can take its next step in every state, and
\* of two exchanges that are both sending either can finish first
NoOrderBetweenTasks ==
    \A t \in TaskIds :
        /\ tasks[t].pc = "spawned" => ENABLED Poll(t)
        /\ tasks[t].pc = "request" =>
              ENABLED (Respond(t, NetEvent("head", TRUE, 200, <<>>)) /\ Done(t)')
        /\ tasks[t].pc = "body" =>
              ENABLED (Body(t, NetEvent("end", TRUE, 0, <<>>)) /\ Done(t)')
        /\ \A u \in TaskIds \ {t} :
              (tasks[t].pc = "request" /\ tasks[u].pc = "request") =>
                  ENABLED (/\ Respond(t, NetEvent("head", TRUE, 200, <<>>))
                           /\ Done(t)'
                           /\ tasks'[u] = tasks[u])

\* future t's exchange finishes now and future u's is still sending
FinishesBefore(t, u) ==
    /\ Respond(t, NetEvent("head", TRUE, 200, <<>>))
    /\ Done(t)'
    /\ tasks'[u] = tasks[u]

\* the Sending phases of the first two exchanges overlap, and from there
\* either of them can finish while the other is still sending
EitherOrderFromOverlap ==
    /\ Len(tasks) >= 2
    /\ tasks[1].pc = "request" /\ tasks[2].pc = "request"
    /\ ENABLED FinishesBefore(1, 2)
    /\ ENABLED FinishesBefore(2, 1)

\* the exchange spawned second has finished, the one spawned first still
\* awaits its response
SecondFinishedFirst ==
    /\ Len(tasks) >= 2
    /\ tasks[1].pc = "request"
    /\ Done(2)

\* the exchange spawned first has finished, the one spawned second still
\* awaits its response
FirstFinishedFirst ==
    /\ Len(tasks) >= 2
    /\ Done(1)
    /\ tasks[2].pc = "request"

(***************************************************************************)
(* C11.  spawn never waits.  Once the future is with the runtime the call  *)
(* can return Ok(()) in every state: whether the future has been polled or *)
(* not, whether its request was answered or not, whatever the other        *)
(* futures and the other calls do.  Its return changes no future, and the  *)
(* value a call returned is never changed by a later step, network events  *)
(* included.                                                               *)
(***************************************************************************)
\* call i returns Ok(()) and leaves every future and every other call as
\* they are
ReturnsOk(i) ==
    /\ SpawnOk(i)
    /\ calls'[i].ret = Some("Ok")
    /\ \A j \in CallIds \ {i} : calls'[j] = calls[j]
    /\ tasks' = tasks

\* a value that was returned stays, and no call is taken back
ReturnIsFinal ==
    /\ Len(calls') >= Len(calls)
    /\ \A i \in CallIds : calls[i].ret # None => calls'[i].ret = calls[i].ret

\* a call in progress can return, whatever the futures, the network and the
\* other calls did
CanAlwaysReturn == \A i \in 1..MaxSpawns : InCall(i) => ENABLED ReturnsOk(i)

\* C11: a call in progress can return Ok(()) whatever its future and the
\* network did, and no step changes a value that was returned
SpawnNeverBlocks == []CanAlwaysReturn /\ [][ReturnIsFinal]_vars

\* two calls overlap: a later call has returned Ok(()) while an earlier one
\* is still between rt.spawn and its return, both futures scheduled
OverlappingCalls ==
    \E i, j \in CallIds :
        /\ i < j
        /\ InCall(i)
        /\ calls[j].ret = Some("Ok")
        /\ calls[i].task # 0 /\ calls[j].task # 0
        /\ tasks[calls[i].task].pc = "spawned"
        /\ tasks[calls[j].task].pc = "spawned"

\* two calls are in progress at once, one passed a Payload with a logger and
\* one a Payload without, and a caller has changed its Payload since
EditedDuringCalls ==
    \E i, j \in CallIds :
        /\ InCall(i) /\ InCall(j)
        /\ IsSome(calls[i].payload.logger)
        /\ ~IsSome(calls[j].payload.logger)
        /\ payload # calls[j].payload

\* every call has returned Ok(()); one future has not been polled yet, the
\* other awaits a response that has not arrived
ReturnedWhileInFlight ==
    /\ Len(calls) = MaxSpawns
    /\ \A i \in CallIds : calls[i].ret = Some("Ok")
    /\ \E t, u \in TaskIds : tasks[t].pc = "spawned" /\ tasks[u].pc = "request"

(***************************************************************************)
(* C12.  The JSON object of an Event has the three required members and,   *)
(* in declaration order, one member under its wire name for each optional  *)
(* field that is Some; a field that is None has no member and the text     *)
(* holds no null.  Event::default() is the three required members alone,   *)
(* and setting a None field to Some and back to None gives the text the    *)
(* Event had before.                                                       *)
(***************************************************************************)
WireName(f) ==
    CASE f = "correlation_id" -> "correlationId"
      [] f = "timestamp" -> "timestamp"
      [] f = "message_detail" -> "messageDetail"
      [] f = "host" -> "host"
      [] f = "application_version" -> "applicationVersion"
      [] f = "data_center" -> "dataCenter"
      [] f = "client_host_name" -> "clientHostName"
      [] f = "destination_host_name" -> "destinationHostName"
      [] f = "destination_path" -> "destinationPath"
      [] f = "start_timestamp" -> "startTimestamp"
      [] f = "finish_timestamp" -> "finishTimestamp"
      [] f = "duration" -> "duration"
      [] f = "duration_in_ms" -> "durationInMs"
      [] f = "response_code" -> "responseCode"
      [] f = "response" -> "response"

CharAt(text, i) == SubSeq(text, i, i)

\* the scanner of a JSON text after one more character c at index i.  depth
\* is the nesting of braces, open is 0 outside a string, else the index of
\* the string's first character, keys are the member names met so far (the
\* strings at depth 1 that a colon follows), nulls counts the letters n
\* outside strings, which in JSON only the literal null has.
ScanChar(text, i, st) ==
    LET c == CharAt(text, i)
    IN  IF st.open > 0
        THEN IF c = "\""
             THEN [st EXCEPT
                     !.open = 0,
                     !.keys = IF st.depth = 1 /\ i < Len(text) /\ CharAt(text, i + 1) = ":"
                              THEN Append(@, SubSeq(text, st.open, i - 1))
                              ELSE @]
             ELSE st
        ELSE CASE c = "\"" -> [st EXCEPT !.open = i + 1]
               [] c = "{" -> [st EXCEPT !.depth = @ + 1]
               [] c = "}" -> [st EXCEPT !.depth = @ - 1]
               [] c = "n" -> [st EXCEPT !.nulls = @ + 1]
               [] OTHER -> st

\* the scanner after the characters lo..hi, one half after the other; it
\* stops where the object's closing brace brought the nesting back to 0
RECURSIVE Scan(_, _, _, _)
Scan(text, lo, hi, st) ==
    IF lo > hi THEN st
    ELSE IF lo = hi THEN ScanChar(text, lo, st)
    ELSE LET mid == (lo + hi) \div 2
             left == Scan(text, lo, mid, st)
         IN  IF left.depth = 0 THEN left ELSE Scan(text, mid + 1, hi, left)

ScanObject(text) ==
    Scan(text, 1, Len(text), [depth |-> 0, open |-> 0, keys |-> <<>>, nulls |-> 0])

\* the member names of the JSON object `text`, in the order they stand
JsonKeys(text) == ScanObject(text).keys

\* the wire names of the optional fields of e that are Some, in order
RECURSIVE PresentKeys(_, _)
PresentKeys(e, fields) ==
    IF fields = <<>> THEN <<>>
    ELSE (IF IsSome(e[Head(fields)]) THEN <<WireName(Head(fields))>> ELSE <<>>)
             \o PresentKeys(e, Tail(fields))

ExpectedKeys(e) == <<"routingKey", "type", "message">> \o PresentKeys(e, OptionalFields)

\* f set to Some and then back to None
SetAndCleared(e, f) == set_optional(set_optional(e, f, Some(FullValue(f))), f, None)

\* C12: the members of the Event's JSON are the required three and the Some
\* fields, no null; the default Event is the three required members; Some
\* and back to None restores the text
PresenceMirrorsOption ==
    LET json == EventJson(echo_event)
        scanned == ScanObject(json)
    IN  /\ scanned.keys = ExpectedKeys(echo_event)
        /\ scanned.nulls = 0
        /\ echo_event = EventDefault =>
              json = "{\"routingKey\":\"\",\"type\":\"INFO\",\"message\":\"\"}"
        /\ \A k \in 1..Len(OptionalFields) :
              ~IsSome(echo_event[OptionalFields[k]]) =>
                  SetAndCleared(echo_event, OptionalFields[k]) = echo_event

\* an Event with its routing key and type set, three optional fields Some
\* and the others None: six members, the 64-bit timestamp among them
SomeSetSomeCleared ==
    /\ echo_event.routing_key # "" /\ echo_event.event_type = "Performance"
    /\ echo_event.timestamp = Some(FullValue("timestamp"))
    /\ IsSome(echo_event.message_detail)
    /\ IsSome(echo_event.response)
    /\ ~IsSome(echo_event.correlation_id) /\ ~IsSome(echo_event.host)
    /\ JsonKeys(EventJson(echo_event)) =
          <<"routingKey", "type", "message", "timestamp", "messageDetail", "response">>
    /\ Contains(EventJson(echo_event), "\"timestamp\":196300801666,")

(***************************************************************************)
(* C13.  The life of a submission.  spawn builds, serializes and schedules *)
(* in one call, so a future is born Scheduled; its first poll makes it     *)
(* Sending (the request is with the client); it ends Succeeded or Failed.  *)
(* No step leads back: an ended future never changes again, a request is   *)
(* issued only on the step from Scheduled to Sending, and so a future      *)
(* issues one request at most, whatever its outcome.                       *)
(***************************************************************************)
Phase(task) ==
    CASE task.pc = "spawned" -> "Scheduled"
      [] task.pc \in {"request", "body"} -> "Sending"
      [] task.pc = "done" -> IF task.res = Some("Ok") THEN "Succeeded" ELSE "Failed"

Terminal == {"Succeeded", "Failed"}

\* the steps of the specification's state machine, staying in place included
Allowed ==
    {<<"Scheduled", "Scheduled">>, <<"Scheduled", "Sending">>,
     <<"Sending", "Sending">>, <<"Sending", "Succeeded">>, <<"Sending", "Failed">>,
     <<"Succeeded", "Succeeded">>, <<"Failed", "Failed">>}

\* the requests a future has issued are those of its phase: none while
\* Scheduled, one from Sending on
SentMatchesPhase ==
    \A t \in TaskIds :
        Len(tasks[t].sent) = IF Phase(tasks[t]) = "Scheduled" THEN 0 ELSE 1

LifecycleStep ==
    /\ Len(tasks') >= Len(tasks)
    /\ \A t \in 1..Len(tasks') :
        IF t \in TaskIds
        THEN /\ <<Phase(tasks[t]), Phase(tasks'[t])>> \in Allowed
             /\ Phase(tasks[t]) \in Terminal => tasks'[t] = tasks[t]
             /\ Len(tasks'[t].sent) =
                   Len(tasks[t].sent)
                       + (IF Phase(tasks[t]) = "Scheduled" /\ Phase(tasks'[t]) = "Sending"
                          THEN 1 ELSE 0)
        ELSE /\ Phase(tasks'[t]) = "Scheduled"
             /\ tasks'[t].json = to_string(payload.events).json

\* C13: every future moves only forward along Scheduled, Sending, Succeeded
\* or Failed, ended futures never change, and a future issues one request
\* at most
OneWayLifecycle == []SentMatchesPhase /\ [][LifecycleStep]_vars

\* one exchange ended Succeeded and one ended Failed after a non-2xx
\* response, each having issued one request
EndedBothWays ==
    \E t, u \in TaskIds :
        /\ Phase(tasks[t]) = "Succeeded" /\ Phase(tasks[u]) = "Failed"
        /\ Len(tasks[t].sent) = 1 /\ Len(tasks[u].sent) = 1
        /\ tasks[u].res = Some(ErrKindRun)

(***************************************************************************)
(* C14.  spawn borrows the Payload immutably and the future holds clones,  *)
(* so no step of the dispatcher changes the caller's Payload or Event, and *)
(* none changes the Spawner, which is a runtime and a client and holds no  *)
(* counter.  error_count and retry_count, which have no setter, keep the   *)
(* values of Payload::default() in the caller's Payload and in every       *)
(* Payload that was passed to spawn.                                       *)
(***************************************************************************)
CountersAtDefault(p) ==
    /\ p.error_count = PayloadDefault.error_count
    /\ p.retry_count = PayloadDefault.retry_count

CountersInert ==
    /\ CountersAtDefault(payload)
    /\ \A i \in CallIds : CountersAtDefault(calls[i].payload)
    /\ DOMAIN spawner = {"rt", "client"}

\* a step of spawn or of a future leaves the Payload, the Event and the
\* Spawner as they were
DispatcherStepFrame ==
    (calls' # calls \/ tasks' # tasks) =>
        /\ payload' = payload
        /\ echo_event' = echo_event
        /\ spawner' = spawner

\* C14: the counters stay at their construction values and no step of spawn
\* or of a future changes the Payload or the Spawner
PayloadUntouched == []CountersInert /\ [][DispatcherStepFrame]_vars

\* the same Payload, logger set, was passed to every call; one exchange
\* succeeded, one failed in transport, and the Payload is as it was passed
SamePayloadAfterOutcomes ==
    /\ Len(calls) = MaxSpawns
    /\ IsSome(payload.logger)
    /\ \A i \in CallIds : calls[i].payload = payload
    /\ \E t, u \in TaskIds :
        /\ Succeeded(t)
        /\ tasks[u].res = Some(HyperError)

(***************************************************************************)
(* C15.  The order of the two entries of a non-2xx response, for a future  *)
(* that holds a logger.  The classification entry is there before the      *)
(* first body read and is the only entry while the body is being read; the *)
(* body entry follows only when body.next() returned None.  When a read    *)
(* fails the future ends with the hyper error, not ErrKind::Run, and its   *)
(* log is the classification entry alone.                                  *)
(***************************************************************************)
\* the log of t is its classification entry and nothing else
ClassificationOnly(t) ==
    /\ Len(tasks[t].log) = 1
    /\ tasks[t].log[1].level = "error"
    /\ StartsWith(tasks[t].log[1].msg, ClassOf(StatusOf(t)) \o " error sending Echo Payload: ")

\* the last body read of t failed
ReadFailed(t) ==
    LET last == tasks[t].net[Len(tasks[t].net)]
    IN  last.kind = "chunk" /\ ~last.ok

\* C15: classification before the body is read, body entry only after the
\* body ended, and a failed read ends the future with the hyper error and
\* the classification entry alone
ClassificationBeforeBody ==
    \A t \in TaskIds :
        (HasLogger(t) /\ NonSuccess(t)) =>
            /\ tasks[t].pc = "body" => ClassificationOnly(t)
            /\ (Done(t) /\ ReadFailed(t)) =>
                  /\ ClassificationOnly(t)
                  /\ tasks[t].res = Some(HyperError)
                  /\ tasks[t].res # Some(ErrKindRun)
            /\ Len(tasks[t].log) = 2 =>
                  /\ Done(t) /\ Drained(t)
                  /\ tasks[t].log[2].msg = BodyText(t)
            /\ Len(tasks[t].log) \in {1, 2}

\* status 500, "oo" read, then the read of the next chunk failed
ReadFailedMidBody ==
    \E t \in TaskIds :
        /\ HasLogger(t) /\ NonSuccess(t) /\ StatusOf(t) = 500
        /\ Done(t) /\ ReadFailed(t)
        /\ tasks[t].buffer = <<111, 111>>

====
